---- MODULE Spec2Model ----
(***************************************************************************)
(* Goa Sewa Connect: the relational state behind the portal (user_roles,   *)
(* services, applications, documents, payments, the storage bucket), the   *)
(* row-level policies of the migration, and the client handlers that write *)
(* to it (ApplyService.handleSubmit, OfficerDashboard.handleUpdateStatus)  *)
(* or gate what is shown (AuthGuard).                                      *)
(***************************************************************************)
EXTENDS Integers, Sequences, FiniteSets, TLC

(* ------------------------------ bounds -------------------------------- *)

\* Number of handleSubmit invocations that pass validation, over all clients.
MaxSubs == 1

\* Number of status updates one officer dashboard may have in flight.
MaxInflight == 2

\* Number of rows the requests sent straight to the query service insert.
MaxApps == 2

(* --------------------------- fixed universe --------------------------- *)

\* The ids of the applications a dashboard can list.
AppIds == 1..(IF MaxSubs > MaxApps THEN MaxSubs ELSE MaxApps)

NULL == "null"

Users == {"u1", "u2", "u3"}

\* CREATE TYPE public.app_role
Roles == {"citizen", "officer", "admin"}

\* CREATE TYPE public.application_status
Statuses == {"pending", "under_review", "approved", "rejected",
             "additional_info_required"}

Terminal == {"approved", "rejected"}

ServiceIds == {"s1", "s2"}

\* Labels of required documents; the two services share one label, as the
\* sample services share 'Passport Photo'.
Labels == {"D1", "D2"}

\* fee DECIMAL(10,2): the two fees of the sample services.
Fees == {25, 50}

\* The text an officer may have typed in the remarks box of an application.
RemarkTexts == {"", "r"}

\* The value of new Date().toISOString(): some instant, never null.
Instant == "t"

VARIABLES
  auth_users,    \* table auth.users: the ids of the accounts
  profiles,      \* table profiles: id -> [full_name]
  user_roles,    \* table user_roles: set of [user_id, role]
  services,      \* table services: id -> [fee, required_documents, is_active]
  applications,  \* table applications: sequence of rows, the index is the id
  documents,     \* table documents: sequence of rows
  payments,      \* table payments: sequence of rows
  storage,       \* bucket application-documents: set of object paths
  page,          \* per user: the ApplyService view of that user's browser;
                 \* submitting is the handler the view waits for (0: none)
  subs,          \* the handleSubmit invocations that passed validation
  toast,         \* the notification the last step raised, if any
  dash,          \* per officer: the OfficerDashboard view
  inflight,      \* per officer: status updates sent and not yet resolved
  citizenApps,   \* per user: the applications list of CitizenDashboard
  citizenRows,   \* per user: what that list holds of each application
  citizenServices, \* per user: the services list of CitizenDashboard
  admin,         \* the AdminDashboard view of the admin's browser
  lastReq,       \* the last request sent straight to the query service
  session,       \* the signed-in user of the browser AuthGuard runs in
  guard,         \* the state of the AuthGuard of that browser
  nav            \* the router of that browser: the route shown, and the
                 \* state of the Index or RoleSelector page on it

backend == <<auth_users, profiles, user_roles, services, applications,
             documents, payments, storage>>
applyVars == <<page, subs>>
officerVars == <<dash, inflight>>
citizenVars == <<citizenApps, citizenRows, citizenServices>>
authVars == <<session, guard, nav>>
vars == <<auth_users, profiles, user_roles, services, applications, documents,
          payments, storage, page, subs, toast, dash, inflight, citizenApps,
          citizenRows, citizenServices, admin, lastReq, session, guard,
          nav>>

(* ------------------------------ helpers ------------------------------- *)

Range(s) == {s[i] : i \in DOMAIN s}

RECURSIVE SelectSeq2(_, _)
\* Array.prototype.filter with a set as the predicate: keeps the order.
SelectSeq2(s, keep) ==
  IF s = <<>> THEN <<>>
  ELSE IF Head(s) \in keep THEN <<Head(s)>> \o SelectSeq2(Tail(s), keep)
       ELSE SelectSeq2(Tail(s), keep)

(* ------------------------- row-level policies ------------------------- *)

\* public.has_role: SECURITY DEFINER, reads user_roles whoever the caller is.
has_role(_user_id, _role) ==
  \E r \in user_roles : r.user_id = _user_id /\ r.role = _role

IsStaff(uid) == has_role(uid, "officer") \/ has_role(uid, "admin")

\* user_roles.select("role").eq("user_id", u) sent by u ("Users can view
\* their own roles"): the roles user u holds.
RolesOf(u) == {r.role : r \in {x \in user_roles : x.user_id = u}}

\* A select policy that lets every caller see every row.
CanSelectApplication_Open(uid, row) == TRUE

\* "Citizens can view their own applications" OR "Officers can view all
\* applications": permissive policies of one command are OR-ed.
CanSelectApplication(uid, row) == uid = row.citizen_id \/ IsStaff(uid)

\* "Citizens can create applications": WITH CHECK (auth.uid() = citizen_id).
CanInsertApplication(uid, row) == uid = row.citizen_id

\* An update policy that also lets the owner of the row update it.
CanUpdateApplication_Owner(uid, row) == uid = row.citizen_id \/ IsStaff(uid)

\* An update policy that shows an officer only the rows still pending.
CanUpdateApplication_PendingOnly(uid, row) ==
  IsStaff(uid) /\ row.status = "pending"

\* "Officers can update applications": USING (officer OR admin).
CanUpdateApplication(uid, row) == IsStaff(uid)

\* A join-exists predicate that only asks for the application to exist.
OwnsApplication_Any(uid, application_id) ==
  application_id \in DOMAIN applications

\* "Citizens can insert documents for their applications" and "Citizens can
\* create payments for their applications": the same join-exists predicate.
OwnsApplication(uid, application_id) ==
  \E i \in DOMAIN applications :
    i = application_id /\ applications[i].citizen_id = uid

CanInsertDocument(uid, row) == OwnsApplication(uid, row.application_id)

CanInsertPayment(uid, row) == OwnsApplication(uid, row.application_id)

\* "Anyone can view active services" OR "Admins can manage services".
\* "Users can view their own roles": the only policy of user_roles.
CanSelectUserRole(uid, row) == uid = row.user_id

\* A services SELECT policy that shows every row to everyone.
CanSelectService_Public(uid, id) == TRUE

CanSelectService(uid, id) == services[id].is_active \/ has_role(uid, "admin")

\* "Admins can manage services": FOR ALL USING (admin).
CanManageService(uid, id) == has_role(uid, "admin")

\* "Citizens can upload documents for their applications": the first folder
\* of the object name is the caller's id.
CanUploadObject(uid, path) == path[1] = uid

(* --------------------------- backend requests ------------------------- *)

\* The index of a row is its id, so a deleted row leaves its place behind:
\* what is at the place of a deleted applications, documents or payments
\* row. No request sees or touches it.
Gone == [citizen_id |-> NULL, service_id |-> NULL, officer_id |-> NULL,
         status |-> "deleted", remarks |-> NULL, completed_on |-> NULL]

GoneDocument == [application_id |-> 0, doc_type |-> NULL, file_url |-> <<>>]

GonePayment == [application_id |-> 0, amount |-> 0, status |-> "deleted",
                payment_method |-> NULL]

\* select on applications as caller uid: the ids of the rows returned.
SelectApplications(uid) ==
  {i \in DOMAIN applications :
     applications[i] # Gone /\ CanSelectApplication(uid, applications[i])}

\* A row with the columns of data overwritten (UPDATE ... SET).
Patch(row, data) ==
  [c \in DOMAIN row |-> IF c \in DOMAIN data THEN data[c] ELSE row[c]]

\* update(data).eq("id", id) on applications as caller uid: rows the UPDATE
\* policy hides are not touched and no error is raised.
UpdateApplication(uid, id, data) ==
  [i \in DOMAIN applications |->
     IF i = id /\ applications[i] # Gone
          /\ CanUpdateApplication(uid, applications[i])
     THEN Patch(applications[i], data)
     ELSE applications[i]]

\* The row an insert into applications produces: the columns not given take
\* the defaults of the table.
NewApplication(citizen_id, service_id, status) ==
  [citizen_id |-> citizen_id, service_id |-> service_id, officer_id |-> NULL,
   status |-> status, remarks |-> NULL, completed_on |-> NULL]

\* useState<Service | null>(null): no service loaded.
NoService == [id |-> NULL, fee |-> 0, required_documents |-> <<>>]

\* services.select(...).eq("id", id).single() as caller uid.
SelectService(uid, id) ==
  IF CanSelectService(uid, id)
  THEN [id |-> id, fee |-> services[id].fee,
        required_documents |-> services[id].required_documents]
  ELSE NoService

\* `${user.id}/${application.id}/${docType}.${fileExt}`
ObjectPath(uid, application_id, docType) == <<uid, application_id, docType>>

(* ------------------------------- Init --------------------------------- *)

\* The ApplyService view is not mounted.
NoPage == [route |-> "other", service |-> NoService, files |-> <<>>,
           submitting |-> 0]

NoToast == [user |-> NULL, msg |-> "", labels |-> <<>>]

\* toast.error / toast.success in the browser of user u.
Raise(u, msg, labels) == [user |-> u, msg |-> msg, labels |-> labels]

\* The OfficerDashboard view is not mounted.
NoDash == [mounted |-> FALSE, apps |-> <<>>, processingId |-> 0,
           remarks |-> [i \in 1..0 |-> ""], refetch |-> FALSE]

\* No request has been sent straight to the query service.
NoReq == [op |-> "none", uid |-> NULL, id |-> 0, rows |-> {}]

\* No AuthGuard is mounted.
NoGuard == [mounted |-> FALSE, requiredRole |-> NULL, user |-> NULL,
            loading |-> TRUE, hasRole |-> FALSE, getSession |-> FALSE,
            queries |-> {}, verified |-> {}]

\* The routes of App that the model follows; /apply/:serviceId is the page
\* variable.
Routes == {"/", "/auth", "/citizen", "/officer", "/admin", "/select-role"}

\* The position the effect of the page of a route starts at: checkAuth of
\* Index, checkUserRoles of RoleSelector; the other pages are not followed.
StartPc(route) ==
  IF route = "/" THEN "getSession"
  ELSE IF route = "/select-role" THEN "getUser"
  ELSE "idle"

\* The router after navigate(route): the page of the route is mounted with
\* its initial state. user is the user whose roles the effect of a page
\* fetched, kept over the navigation that effect ends with; picked is the
\* role last clicked in the role selector whose navigation is still going
\* on (neither is read by the code after the navigation).
Navigate(route, picked) ==
  [route |-> route, pc |-> StartPc(route), user |-> NULL, roles |-> {},
   loading |-> TRUE, picked |-> picked]

\* The browser shows /auth.
NoNav == Navigate("/auth", NULL)

\* useState<Stats> of AdminDashboard.
ZeroStats ==
  [totalApplications |-> 0, pendingApplications |-> 0,
   approvedApplications |-> 0, rejectedApplications |-> 0,
   totalRevenue |-> 0, totalCitizens |-> 0]

\* No AdminDashboard is mounted. pc is the await fetchStats stands at, data
\* its local variable applications. base holds the tables fetchStats reads
\* as they were when the run began; lastBase and lastStats hold base and
\* the statistics of the last run that reached setStats, and repeat tells
\* that the run shown read the tables as that earlier run had found them
\* (bookkeeping the comparisons of two runs are stated with).
NoAdmin ==
  [user |-> NULL, pc |-> "none", data |-> <<>>, stats |-> ZeroStats,
   loading |-> TRUE, base |-> <<>>, lastBase |-> <<>>,
   lastStats |-> ZeroStats, repeat |-> FALSE]

\* The accounts, with the profile the signup trigger gave each.
InitAccounts ==
  /\ auth_users = Users
  /\ profiles = [u \in Users |-> [full_name |-> "User"]]

Init ==
  /\ InitAccounts
  /\ user_roles = {[user_id |-> "u1", role |-> "citizen"],
                   [user_id |-> "u2", role |-> "citizen"],
                   [user_id |-> "u2", role |-> "officer"],
                   [user_id |-> "u3", role |-> "officer"],
                   [user_id |-> "u3", role |-> "admin"]}
  /\ services =
       [s \in ServiceIds |->
          IF s = "s1"
          THEN [fee |-> 50, required_documents |-> <<"D1", "D2">>,
                is_active |-> TRUE]
          ELSE [fee |-> 25, required_documents |-> <<"D2">>,
                is_active |-> TRUE]]
  /\ applications = <<>>
  /\ documents = <<>>
  /\ payments = <<>>
  /\ storage = {}
  /\ page = [u \in Users |-> NoPage]
  /\ subs = <<>>
  /\ toast = NoToast
  /\ dash = [u \in Users |-> NoDash]
  /\ inflight = [u \in Users |-> {}]
  /\ citizenApps = [u \in Users |-> {}]
  /\ citizenRows = [u \in Users |-> <<>>]
  /\ citizenServices = [u \in Users |-> {}]
  /\ admin = NoAdmin
  /\ lastReq = NoReq
  /\ session = NULL
  /\ guard = NoGuard
  /\ nav = NoNav

(* ---------------------------- ApplyService ---------------------------- *)

\* navigate(`/apply/${service.id}`) from the citizen dashboard: the view
\* mounts behind AuthGuard requiredRole="citizen" and fetchService loads
\* the service; a failed fetch navigates back to "/".
OpenApply(c, s) ==
  /\ has_role(c, "citizen")
  /\ page[c].route = "other"
  /\ LET svc == SelectService(c, s) IN
       page' = [page EXCEPT ![c] =
                  IF svc.id = NULL THEN NoPage
                  ELSE [route |-> "apply", service |-> svc, files |-> <<>>,
                        submitting |-> 0]]
  /\ toast' = NoToast
  /\ UNCHANGED <<admin, backend, subs, officerVars, citizenVars, lastReq, authVars>>

\* The route parameter serviceId changes while the view stays mounted: the
\* effect on [serviceId] runs fetchService again, the other state is kept.
RouteParamChange(c, s) ==
  /\ page[c].route = "apply"
  /\ page[c].service.id # s
  /\ LET svc == SelectService(c, s) IN
       page' = [page EXCEPT ![c] =
                  IF svc.id = NULL THEN NoPage
                  ELSE [@ EXCEPT !.service = svc]]
  /\ toast' = NoToast
  /\ UNCHANGED <<admin, backend, subs, officerVars, citizenVars, lastReq, authVars>>

\* files after setFiles(prev => ({...prev, [docType]: file})): a key that is
\* new goes last, a key that is there keeps its place.
PutFile(files, docType) ==
  IF docType \in Range(files) THEN files ELSE Append(files, docType)

\* files after delete newFiles[docType].
DeleteFile(files, docType) == SelectSeq2(files, Labels \ {docType})

\* handleFileChange(docType, file): files is kept as the sequence of its keys
\* in insertion order, the order Object.entries walks them in.
handleFileChange(c, docType, hasFile) ==
  /\ page[c].route = "apply"
  /\ docType \in Range(page[c].service.required_documents)
  /\ page' = [page EXCEPT ![c].files =
                IF hasFile THEN PutFile(@, docType) ELSE DeleteFile(@, docType)]
  /\ page'[c] # page[c]
  /\ toast' = NoToast
  /\ UNCHANGED <<admin, backend, subs, officerVars, citizenVars, lastReq, authVars>>

\* A filter that stops at the first label without a file.
missingDocs_First(service, files) ==
  LET all == SelectSeq2(service.required_documents, Labels \ Range(files)) IN
  IF all = <<>> THEN <<>> ELSE <<Head(all)>>

\* service.required_documents.filter(doc => !files[doc])
missingDocs(service, files) ==
  SelectSeq2(service.required_documents, Labels \ Range(files))

\* The positions a running handleSubmit can be at: the request it sends next.
ActivePc == {"insertApp", "upload", "insertDoc", "payment"}

\* handleSubmit up to setSubmitting(true): the validation of the files, then
\* the handler runs on with the service and the files of this render. The
\* handler's getUser() has no effect of its own: its failure is a failure
\* of the first request. feeAtSubmit records the fee the backend holds at
\* this moment (not read by the code).
handleSubmit(c) ==
  /\ page[c].route = "apply"
  /\ page[c].submitting = 0
  /\ LET missing == missingDocs(page[c].service, page[c].files) IN
       IF missing # <<>>
       THEN /\ toast' = Raise(c, "Please upload", missing)
            /\ UNCHANGED <<admin, backend, page, subs, officerVars, citizenVars, lastReq, authVars>>
       ELSE /\ Len(subs) < MaxSubs
            /\ page' = [page EXCEPT ![c].submitting = Len(subs) + 1]
            /\ subs' = Append(subs,
                 [user |-> c, service |-> page[c].service,
                  files |-> page[c].files, pc |-> "insertApp", app |-> 0,
                  todo |-> page[c].files,
                  feeAtSubmit |-> services[page[c].service.id].fee])
            /\ toast' = NoToast
  /\ UNCHANGED <<admin, backend, officerVars, citizenVars, lastReq, authVars>>

\* A handler that goes straight to the payment, whatever is left to upload.
NextStep_SkipLoop(rest) == "payment"

\* for (const [docType, file] of Object.entries(files)): the request the
\* handler sends next, given the entries the loop has not been through.
NextStep(rest) == IF rest = <<>> THEN "payment" ELSE "upload"

\* A handler that takes up the caller's pending application for the same
\* service when there is one, instead of inserting a row.
InsertApplication_Reuse(h) ==
  LET t == subs[h]
      row == NewApplication(t.user, t.service.id, "pending")
      old == {i \in DOMAIN applications : applications[i] = row} IN
  /\ t.pc = "insertApp"
  /\ applications' = IF old = {} THEN Append(applications, row)
                     ELSE applications
  /\ subs' = [subs EXCEPT ![h].app = IF old = {} THEN Len(applications) + 1
                                     ELSE CHOOSE i \in old : TRUE,
                          ![h].pc = NextStep(t.todo)]
  /\ toast' = NoToast
  /\ UNCHANGED <<admin, auth_users, profiles, user_roles, services,
                 documents, payments, storage, page, officerVars,
                 citizenVars, lastReq, authVars>>

\* applications.insert({citizen_id: user.id, service_id: service.id,
\* status: "pending"}).select().single() succeeds.
InsertApplication(h) ==
  LET t == subs[h]
      row == NewApplication(t.user, t.service.id, "pending") IN
  /\ t.pc = "insertApp"
  /\ CanInsertApplication(t.user, row)
  /\ t.service.id \in DOMAIN services
  /\ applications' = Append(applications, row)
  /\ subs' = [subs EXCEPT ![h].app = Len(applications) + 1,
                          ![h].pc = NextStep(t.todo)]
  /\ toast' = NoToast
  /\ UNCHANGED <<admin, auth_users, profiles, user_roles, services, documents, payments, storage, page, officerVars, citizenVars, lastReq, authVars>>

\* storage.from("application-documents").upload(fileName, file) succeeds for
\* the next entry of Object.entries(files).
UploadObject(h) ==
  LET t == subs[h]
      path == ObjectPath(t.user, t.app, Head(t.todo)) IN
  /\ t.pc = "upload"
  /\ CanUploadObject(t.user, path)
  /\ path \notin storage
  /\ storage' = storage \cup {path}
  /\ subs' = [subs EXCEPT ![h].pc = "insertDoc"]
  /\ toast' = NoToast
  /\ UNCHANGED <<admin, auth_users, profiles, user_roles, services, applications, documents, payments, page, officerVars, citizenVars, lastReq, authVars>>

\* documents.insert({application_id, file_name, file_url, doc_type}) succeeds
\* and the loop goes to the next entry, or on to the payment.
InsertDocument(h) ==
  LET t == subs[h]
      row == [application_id |-> t.app, doc_type |-> Head(t.todo),
              file_url |-> ObjectPath(t.user, t.app, Head(t.todo))] IN
  /\ t.pc = "insertDoc"
  /\ CanInsertDocument(t.user, row)
  /\ documents' = Append(documents, row)
  /\ subs' = [subs EXCEPT ![h].todo = Tail(t.todo),
                          ![h].pc = NextStep(Tail(t.todo))]
  /\ toast' = NoToast
  /\ UNCHANGED <<admin, auth_users, profiles, user_roles, services, applications, payments, storage, page, officerVars, citizenVars, lastReq, authVars>>

\* A payment row left at the default status of the table.
PaymentRow_Pending(t) ==
  [application_id |-> t.app, amount |-> t.service.fee,
   status |-> "pending", payment_method |-> "mock"]

\* The row of payments.insert({application_id, amount: service.fee,
\* status: "completed", payment_method: "mock", paid_at}).
PaymentRow(t) ==
  [application_id |-> t.app, amount |-> t.service.fee,
   status |-> "completed", payment_method |-> "mock"]

\* The payment insert succeeds: toast.success, navigate("/"), and the
\* finally block.
InsertPayment(h) ==
  LET t == subs[h]
      row == PaymentRow(t) IN
  /\ t.pc = "payment"
  /\ CanInsertPayment(t.user, row)
  /\ payments' = Append(payments, row)
  /\ subs' = [subs EXCEPT ![h].pc = "done"]
  /\ toast' = Raise(t.user, "Application submitted successfully!", <<>>)
  /\ page' = [page EXCEPT ![t.user] = NoPage]
  /\ UNCHANGED <<admin, auth_users, profiles, user_roles, services, applications, documents, storage,
                 officerVars, citizenVars, lastReq, authVars>>

\* A catch block that deletes the application row the handler inserted.
SubmitStepFails_Rollback(h) ==
  LET t == subs[h] IN
  /\ t.pc \in ActivePc
  /\ subs' = [subs EXCEPT ![h].pc = "failed"]
  /\ toast' = Raise(t.user, "Failed to submit application", <<>>)
  /\ page' = IF page[t.user].submitting = h
             THEN [page EXCEPT ![t.user].submitting = 0]
             ELSE page
  /\ applications' = IF t.app # 0 /\ t.app = Len(applications)
                     THEN SubSeq(applications, 1, Len(applications) - 1)
                     ELSE applications
  /\ UNCHANGED <<admin, auth_users, profiles, user_roles, services, documents, payments, storage,
                 officerVars, citizenVars, lastReq, authVars>>

\* The request the handler is waiting for fails (no user, a policy, the
\* network): the catch block raises the error and the finally block ends the
\* submission. Nothing is undone and nothing further is sent.
SubmitStepFails(h) ==
  LET t == subs[h] IN
  /\ t.pc \in ActivePc
  /\ subs' = [subs EXCEPT ![h].pc = "failed"]
  /\ toast' = Raise(t.user, "Failed to submit application", <<>>)
  /\ page' = IF page[t.user].submitting = h
             THEN [page EXCEPT ![t.user].submitting = 0]
             ELSE page
  /\ UNCHANGED <<admin, backend, officerVars, citizenVars, lastReq, authVars>>

\* The "Back to Dashboard" button, enabled also during a submission:
\* navigate("/") unmounts the view; a handler that is running runs on.
NavigateBack(c) ==
  /\ page[c].route = "apply"
  /\ page' = [page EXCEPT ![c] = NoPage]
  /\ UNCHANGED subs
  /\ toast' = NoToast
  /\ UNCHANGED <<admin, backend, officerVars, citizenVars, lastReq, authVars>>

\* The browser leaves the document (tab closed, reload): the handlers of the
\* document end where they are.
PageUnload(c) ==
  /\ \/ page[c].route = "apply"
     \/ \E h \in DOMAIN subs : subs[h].user = c /\ subs[h].pc \in ActivePc
  /\ page' = [page EXCEPT ![c] = NoPage]
  /\ subs' = [h \in DOMAIN subs |->
                IF subs[h].user = c /\ subs[h].pc \in ActivePc
                THEN [subs[h] EXCEPT !.pc = "killed"]
                ELSE subs[h]]
  /\ toast' = NoToast
  /\ UNCHANGED <<admin, backend, officerVars, citizenVars, lastReq, authVars>>

\* An admin changes the fee of a service (services FOR ALL policy).
AdminSetFee(uid, id, fee) ==
  /\ CanManageService(uid, id)
  /\ services[id].fee # fee
  /\ services' = [services EXCEPT ![id].fee = fee]
  /\ toast' = NoToast
  /\ UNCHANGED <<admin, auth_users, profiles, user_roles, applications, documents, payments, storage, applyVars, officerVars, citizenVars, lastReq, authVars>>

\* An admin sets is_active of a service (services FOR ALL policy).
AdminSetActive(uid, id, active) ==
  /\ CanManageService(uid, id)
  /\ services[id].is_active # active
  /\ services' = [services EXCEPT ![id].is_active = active]
  /\ toast' = NoToast
  /\ UNCHANGED <<admin, auth_users, profiles, user_roles, applications,
                 documents, payments, storage, applyVars, officerVars,
                 citizenVars, lastReq, authVars>>

(* -------------------------- OfficerDashboard -------------------------- *)

\* What fetchApplications puts in the applications state, as caller uid: for
\* each row the select returns, the status shown (NULL for a row the select
\* policy hides).
FetchedApplications(uid) ==
  [i \in DOMAIN applications |->
     IF i \in SelectApplications(uid) THEN applications[i].status ELSE NULL]

\* The view mounts behind AuthGuard requiredRole="officer" and the effect
\* runs fetchApplications.
OfficerMount(o) ==
  /\ has_role(o, "officer")
  /\ ~dash[o].mounted
  /\ dash' = [dash EXCEPT ![o] =
                [mounted |-> TRUE, apps |-> FetchedApplications(o),
                 processingId |-> 0, remarks |-> [i \in AppIds |-> ""],
                 refetch |-> FALSE]]
  /\ toast' = NoToast
  /\ UNCHANGED <<admin, backend, applyVars, inflight, citizenVars, lastReq, authVars>>

\* fetchApplications() started by a successful update resolves.
fetchApplications(o) ==
  /\ dash[o].mounted
  /\ dash[o].refetch
  /\ dash' = [dash EXCEPT ![o].apps = FetchedApplications(o),
                          ![o].refetch = FALSE]
  /\ toast' = NoToast
  /\ UNCHANGED <<admin, backend, applyVars, inflight, citizenVars, lastReq, authVars>>

\* The remarks box of an application shown as pending.
SetRemarks(o, appId, text) ==
  /\ dash[o].mounted
  /\ appId \in DOMAIN dash[o].apps
  /\ dash[o].apps[appId] = "pending"
  /\ dash[o].remarks[appId] # text
  /\ dash' = [dash EXCEPT ![o].remarks[appId] = text]
  /\ toast' = NoToast
  /\ UNCHANGED <<admin, backend, applyVars, inflight, citizenVars, lastReq, authVars>>

\* handleUpdateStatus without the completed_on branch.
UpdateData_NoCompletedOn(newStatus, remarkText) ==
  [status |-> newStatus,
   remarks |-> IF remarkText = "" THEN NULL ELSE remarkText]

\* updateData of handleUpdateStatus: remarks[appId] || null, and completed_on
\* for the two final statuses.
UpdateData(newStatus, remarkText) ==
  LET base == [status |-> newStatus,
               remarks |-> IF remarkText = "" THEN NULL ELSE remarkText] IN
  IF newStatus = "approved" \/ newStatus = "rejected"
  THEN [status |-> base.status, remarks |-> base.remarks,
        completed_on |-> Instant]
  ELSE base

\* Buttons that include one for under_review.
ButtonStatuses_WithReview == {"approved", "rejected", "under_review"}

\* The statuses the Approve and Reject buttons pass to handleUpdateStatus.
ButtonStatuses == {"approved", "rejected"}

\* A click on Approve or Reject of an application shown as pending whose
\* buttons are not disabled: handleUpdateStatus up to the update request.
handleUpdateStatus(o, appId, newStatus) ==
  /\ dash[o].mounted
  /\ appId \in DOMAIN dash[o].apps
  /\ dash[o].apps[appId] = "pending"
  /\ dash[o].processingId # appId
  /\ Cardinality(inflight[o]) < MaxInflight
  /\ dash' = [dash EXCEPT ![o].processingId = appId]
  /\ inflight' = [inflight EXCEPT ![o] =
                    @ \cup {[app |-> appId,
                             data |-> UpdateData(newStatus,
                                                 dash[o].remarks[appId])]}]
  /\ toast' = NoToast
  /\ UNCHANGED <<admin, backend, applyVars, citizenVars, lastReq, authVars>>

\* The update request resolves without error: the backend has applied it
\* under the caller's policies, then toast.success, fetchApplications()
\* is started, the remarks box is cleared, and the finally block.
UpdateResolves(o, req) ==
  /\ req \in inflight[o]
  /\ inflight' = [inflight EXCEPT ![o] = @ \ {req}]
  /\ applications' = UpdateApplication(o, req.app, req.data)
  /\ toast' = Raise(o, "Application " \o req.data.status, <<>>)
  /\ dash' = [dash EXCEPT ![o].refetch = TRUE,
                          ![o].remarks[req.app] = "",
                          ![o].processingId = 0]
  /\ UNCHANGED <<admin, auth_users, profiles, user_roles, services, documents, payments, storage,
                 applyVars, citizenVars, lastReq, authVars>>

\* The update request fails: the catch block and the finally block.
UpdateFails(o, req) ==
  /\ req \in inflight[o]
  /\ inflight' = [inflight EXCEPT ![o] = @ \ {req}]
  /\ toast' = Raise(o, "Failed to update application", <<>>)
  /\ dash' = [dash EXCEPT ![o].processingId = 0]
  /\ UNCHANGED <<admin, backend, applyVars, citizenVars, lastReq, authVars>>

(* -------------------------- CitizenDashboard -------------------------- *)

\* The columns of applications that fetchData selects: id (the index),
\* status, and the service of services(name); applied_on is not modelled.
FetchDataColumns == {"status", "service_id"}

\* select(cols): the row with the selected columns only.
Project(row, cols) == [c \in cols |-> row[c]]

\* services.select(...).eq("is_active", true) as caller uid: the ids of the
\* rows returned.
SelectActiveServices(uid) ==
  {s \in DOMAIN services : CanSelectService(uid, s) /\ services[s].is_active}

\* fetchData behind AuthGuard requiredRole="citizen": the select of the
\* active services, then the select of applications as caller c with
\* .eq("citizen_id", user.id).
fetchData(c) ==
  /\ has_role(c, "citizen")
  /\ citizenServices' = [citizenServices EXCEPT ![c] = SelectActiveServices(c)]
  /\ citizenApps' = [citizenApps EXCEPT ![c] =
                       {i \in SelectApplications(c) :
                          applications[i].citizen_id = c}]
  /\ citizenRows' = [citizenRows EXCEPT ![c] =
                       [i \in citizenApps'[c] |->
                          Project(applications[i], FetchDataColumns)]]
  /\ <<citizenApps'[c], citizenRows'[c], citizenServices'[c]>>
       # <<citizenApps[c], citizenRows[c], citizenServices[c]>>
  /\ toast' = NoToast
  /\ UNCHANGED <<admin, backend, applyVars, officerVars, lastReq, authVars>>

(* --------------------------- AdminDashboard --------------------------- *)

\* app.services?.fee of a row whose join found no service (undefined).
NoFee == -1

\* services(fee) of a row of applications as caller uid: the fee of the
\* joined service, NoFee when the join finds no service the caller may
\* read.
JoinedFee(uid, service_id) ==
  IF service_id \in DOMAIN services /\ CanSelectService(uid, service_id)
  THEN services[service_id].fee
  ELSE NoFee

\* applications.select("status, services(fee)") as caller uid.
SelectStatsRows(uid) ==
  [i \in SelectApplications(uid) |->
     [status |-> applications[i].status,
      fee |-> JoinedFee(uid, applications[i].service_id)]]

\* user_roles.select("*", {count: "exact", head: true}).eq("role", "citizen")
\* as caller uid.
CountCitizenRoles(uid) ==
  Cardinality({r \in user_roles :
                 CanSelectUserRole(uid, r) /\ r.role = "citizen"})

\* applications.filter(a => a.status === s).length
CountStatus(data, s) == Cardinality({i \in DOMAIN data : data[i].status = s})

\* Number(app.services?.fee) || 0
NumberOrZero(fee) == IF fee = NoFee THEN 0 ELSE fee

\* reduce((sum, app) => sum + (Number(app.services?.fee) || 0), 0) over the
\* rows of data with index in S.
RECURSIVE SumFee(_, _)
SumFee(data, S) ==
  IF S = {} THEN 0
  ELSE LET i == CHOOSE x \in S : TRUE IN
       NumberOrZero(data[i].fee) + SumFee(data, S \ {i})

\* The revenue summed over every row.
Revenue_AllRows(data) == SumFee(data, DOMAIN data)

\* revenue: the fees of the rows with status approved.
Revenue(data) ==
  SumFee(data, {i \in DOMAIN data : data[i].status = "approved"})

\* Statistics whose total runs on from the figures of the run before.
NewStats_RunningTotal(data, citizenCount) ==
  [totalApplications |->
     admin.lastStats.totalApplications + Cardinality(DOMAIN data),
   pendingApplications |-> CountStatus(data, "pending"),
   approvedApplications |-> CountStatus(data, "approved"),
   rejectedApplications |-> CountStatus(data, "rejected"),
   totalRevenue |-> Revenue(data),
   totalCitizens |-> citizenCount]

\* The object fetchStats passes to setStats.
NewStats(data, citizenCount) ==
  [totalApplications |-> Cardinality(DOMAIN data),
   pendingApplications |-> CountStatus(data, "pending"),
   approvedApplications |-> CountStatus(data, "approved"),
   rejectedApplications |-> CountStatus(data, "rejected"),
   totalRevenue |-> Revenue(data),
   totalCitizens |-> citizenCount]

\* setStats(value): the state is replaced by the value.
SetStats(prev, new) == new

\* The tables fetchStats reads.
StatsTables == <<applications, services, user_roles>>

\* The view mounts behind AuthGuard requiredRole="admin" with its initial
\* state and the effect starts fetchStats, which sends the applications
\* query.
AdminMount(a) ==
  /\ has_role(a, "admin")
  /\ admin.pc \in {"none", "done"}
  /\ admin' = [admin EXCEPT !.user = a, !.pc = "apps", !.data = <<>>,
                            !.stats = ZeroStats, !.loading = TRUE,
                            !.base = StatsTables, !.repeat = FALSE]
  /\ toast' = NoToast
  /\ UNCHANGED <<backend, applyVars, officerVars, citizenVars, lastReq,
                 authVars>>

\* The applications query resolves without error: the counts and the
\* revenue are computed from its rows and the citizen count is requested.
AppsQueryResolves ==
  /\ admin.pc = "apps"
  /\ admin' = [admin EXCEPT !.data = SelectStatsRows(admin.user),
                            !.pc = "count"]
  /\ toast' = NoToast
  /\ UNCHANGED <<backend, applyVars, officerVars, citizenVars, lastReq,
                 authVars>>

\* The citizen count resolves without error: setStats, then the finally
\* block.
CountQueryResolves ==
  /\ admin.pc = "count"
  /\ LET new == SetStats(admin.stats,
                         NewStats(admin.data, CountCitizenRoles(admin.user)))
     IN admin' = [admin EXCEPT !.stats = new, !.loading = FALSE,
                               !.pc = "done", !.data = <<>>,
                               !.lastBase = admin.base, !.lastStats = new,
                               !.repeat = (admin.lastBase = StatsTables)]
  /\ toast' = NoToast
  /\ UNCHANGED <<backend, applyVars, officerVars, citizenVars, lastReq,
                 authVars>>

\* A failing query that leaves the spinner on.
StatsQueryFails_KeepLoading ==
  /\ admin.pc \in {"apps", "count"}
  /\ admin' = [admin EXCEPT !.pc = "done", !.data = <<>>]
  /\ toast' = Raise(admin.user, "Failed to load statistics", <<>>)
  /\ UNCHANGED <<backend, applyVars, officerVars, citizenVars, lastReq,
                 authVars>>

\* The applications query or the citizen count fails: the throw skips
\* setStats, the catch block raises the toast, then the finally block.
StatsQueryFails ==
  /\ admin.pc \in {"apps", "count"}
  /\ admin' = [admin EXCEPT !.loading = FALSE, !.pc = "done", !.data = <<>>]
  /\ toast' = Raise(admin.user, "Failed to load statistics", <<>>)
  /\ UNCHANGED <<backend, applyVars, officerVars, citizenVars, lastReq,
                 authVars>>

(* ------------------ requests sent to the query service ---------------- *)

\* What a caller puts in the SET of an update of applications: a status
\* alone, or the updateData of the two buttons.
UpdatePayloads ==
  {[status |-> "under_review"]}
    \cup {UpdateData(s, "") : s \in ButtonStatuses}

\* The statuses a caller gives the rows it inserts: the one handleSubmit
\* gives, and one the insert policy does not rule out.
InsertStatuses == {"pending", "approved"}

\* insert into applications as caller uid: accepted when the insert policy
\* holds of the new row and the service it references exists.
ApiInsertApplication(uid, citizen_id, service_id, status) ==
  LET row == NewApplication(citizen_id, service_id, status) IN
  /\ Len(applications) < MaxApps
  /\ applications' = IF /\ CanInsertApplication(uid, row)
                        /\ service_id \in DOMAIN services
                     THEN Append(applications, row)
                     ELSE applications
  /\ lastReq' = [op |-> "insert", uid |-> uid, id |-> Len(applications) + 1,
                  rows |-> {}]
  /\ toast' = NoToast
  /\ UNCHANGED <<admin, auth_users, profiles, user_roles, services, documents, payments, storage,
                 applyVars, officerVars, citizenVars, authVars>>

\* update(data).eq("id", id) on applications as caller uid.
ApiUpdateApplication(uid, id, data) ==
  /\ id \in DOMAIN applications
  /\ applications' = UpdateApplication(uid, id, data)
  /\ lastReq' = [op |-> "update", uid |-> uid, id |-> id, rows |-> {}]
  /\ toast' = NoToast
  /\ UNCHANGED <<admin, auth_users, profiles, user_roles, services, documents, payments, storage,
                 applyVars, officerVars, citizenVars, authVars>>

\* select on applications as caller uid, no filter: the ids returned.
ApiSelectApplications(uid) ==
  /\ lastReq' = [op |-> "select", uid |-> uid, id |-> 0,
                  rows |-> SelectApplications(uid)]
  /\ lastReq' # lastReq
  /\ toast' = NoToast
  /\ UNCHANGED <<admin, backend, applyVars, officerVars, citizenVars, authVars>>

\* Number of rows the requests sent straight to the query service insert
\* into documents, and into payments.
MaxRows == 2

\* insert into documents as caller uid, for application a.
ApiInsertDocument(uid, a, docType) ==
  LET row == [application_id |-> a, doc_type |-> docType,
              file_url |-> ObjectPath(uid, a, docType)] IN
  /\ Len(documents) < MaxRows
  /\ documents' = IF CanInsertDocument(uid, row)
                  THEN Append(documents, row)
                  ELSE documents
  /\ lastReq' = [op |-> "insert_document", uid |-> uid, id |-> a,
                  rows |-> {}]
  /\ toast' = NoToast
  /\ UNCHANGED <<admin, auth_users, profiles, user_roles, services, applications,
                 payments, storage, applyVars, officerVars, citizenVars,
                 authVars>>

\* insert into payments as caller uid, for application a.
ApiInsertPayment(uid, a, amount) ==
  LET row == [application_id |-> a, amount |-> amount,
              status |-> "completed", payment_method |-> "mock"] IN
  /\ Len(payments) < MaxRows
  /\ payments' = IF CanInsertPayment(uid, row)
                 THEN Append(payments, row)
                 ELSE payments
  /\ lastReq' = [op |-> "insert_payment", uid |-> uid, id |-> a,
                  rows |-> {}]
  /\ toast' = NoToast
  /\ UNCHANGED <<admin, auth_users, profiles, user_roles, services, applications,
                 documents, storage, applyVars, officerVars, citizenVars,
                 authVars>>

\* applications has no DELETE policy; documents and payments have neither
\* an UPDATE nor a DELETE policy.
CanDeleteApplication(uid, row) == FALSE

CanChangeDocument(uid, row) == FALSE

CanChangePayment(uid, row) == FALSE

\* delete from applications where id = id, as caller uid.
ApiDeleteApplication(uid, id) ==
  /\ id \in DOMAIN applications
  /\ applications' =
       [i \in DOMAIN applications |->
          IF i = id /\ CanDeleteApplication(uid, applications[i])
          THEN Gone ELSE applications[i]]
  /\ lastReq' = [op |-> "delete", uid |-> uid, id |-> id, rows |-> {}]
  /\ lastReq' # lastReq
  /\ toast' = NoToast
  /\ UNCHANGED <<admin, auth_users, profiles, user_roles, services, documents,
                 payments, storage, applyVars, officerVars, citizenVars,
                 authVars>>

\* update or delete of the documents row and the payments row with id j, as
\* caller uid.
ApiChangeDocumentOrPayment(uid, j) ==
  /\ j \in DOMAIN documents \/ j \in DOMAIN payments
  /\ documents' =
       [i \in DOMAIN documents |->
          IF i = j /\ CanChangeDocument(uid, documents[i])
          THEN GoneDocument ELSE documents[i]]
  /\ payments' =
       [i \in DOMAIN payments |->
          IF i = j /\ CanChangePayment(uid, payments[i])
          THEN GonePayment ELSE payments[i]]
  /\ lastReq' = [op |-> "change_child", uid |-> uid, id |-> j, rows |-> {}]
  /\ lastReq' # lastReq
  /\ toast' = NoToast
  /\ UNCHANGED <<admin, auth_users, profiles, user_roles, services, applications,
                 storage, applyVars, officerVars, citizenVars, authVars>>

\* The applications rows a delete of service id takes with it: service_id
\* REFERENCES services(id) ON DELETE CASCADE.
CascadeApplications(id) ==
  {i \in DOMAIN applications : applications[i].service_id = id}

\* delete from services where id = id, as caller uid ("Admins can manage
\* services" is FOR ALL), with the cascade to applications and from there
\* to documents and payments; the cascade is not subject to the policies
\* of the tables it reaches.
ApiDeleteService(uid, id) ==
  LET hit == IF CanManageService(uid, id) THEN {id} ELSE {}
      apps == IF hit = {} THEN {} ELSE CascadeApplications(id) IN
  /\ id \in DOMAIN services
  /\ services' = [s \in DOMAIN services \ hit |-> services[s]]
  /\ applications' = [i \in DOMAIN applications |->
                         IF i \in apps THEN Gone ELSE applications[i]]
  /\ documents' = [i \in DOMAIN documents |->
                      IF documents[i].application_id \in apps
                      THEN GoneDocument ELSE documents[i]]
  /\ payments' = [i \in DOMAIN payments |->
                     IF payments[i].application_id \in apps
                     THEN GonePayment ELSE payments[i]]
  /\ lastReq' = [op |-> "delete_service", uid |-> uid, id |-> 0,
                  rows |-> {}]
  /\ toast' = NoToast
  /\ UNCHANGED <<admin, auth_users, profiles, user_roles, storage, applyVars,
                 officerVars, citizenVars, authVars>>

(* ------------------------------ accounts ------------------------------ *)

\* The ids of the accounts that sign up, and all ids.
NewUsers == {"u4", "u5"}

AllUsers == Users \cup NewUsers

\* full_name: the default of the trigger, and a name given.
ProfileNames == {"User", "n"}

\* A trigger that assigns no role.
NewUserRoles_None(id) == {}

\* handle_new_user: INSERT INTO public.user_roles (user_id, role)
\* VALUES (NEW.id, 'citizen').
NewUserRoles(id) == {[user_id |-> id, role |-> "citizen"]}

\* handle_new_user: INSERT INTO public.profiles (id, email, full_name).
NewProfile(id, name) == [full_name |-> name]

\* A signup: the insert into auth.users and, in the same transaction, the
\* trigger on_auth_user_created running handle_new_user.
SignUp(id, name) ==
  /\ id \notin auth_users
  /\ auth_users' = auth_users \cup {id}
  /\ profiles' = [u \in DOMAIN profiles \cup {id} |->
                    IF u = id THEN NewProfile(id, name) ELSE profiles[u]]
  /\ user_roles' = user_roles \cup NewUserRoles(id)
  /\ lastReq' = [op |-> "signup", uid |-> id, id |-> 0, rows |-> {}]
  /\ toast' = NoToast
  /\ UNCHANGED <<admin, services, applications, documents, payments, storage,
                 applyVars, officerVars, citizenVars, authVars>>

\* "Users can insert their own profile": WITH CHECK (auth.uid() = id); id
\* is the primary key and references auth.users.
CanInsertProfile(uid, id) ==
  uid = id /\ id \in auth_users /\ id \notin DOMAIN profiles

\* "Users can update their own profile": USING (auth.uid() = id).
CanUpdateProfile(uid, id) == uid = id

\* insert into profiles as caller uid.
ApiInsertProfile(uid, id, name) ==
  /\ uid \in auth_users
  /\ profiles' = IF CanInsertProfile(uid, id)
                 THEN [u \in DOMAIN profiles \cup {id} |->
                         IF u = id THEN NewProfile(id, name) ELSE profiles[u]]
                 ELSE profiles
  /\ lastReq' = [op |-> "insert_profile", uid |-> uid, id |-> 0, rows |-> {}]
  /\ lastReq' # lastReq
  /\ toast' = NoToast
  /\ UNCHANGED <<admin, auth_users, user_roles, services, applications, documents,
                 payments, storage, applyVars, officerVars, citizenVars,
                 authVars>>

\* update profiles set full_name = name where id = id, as caller uid.
ApiUpdateProfile(uid, id, name) ==
  /\ uid \in auth_users
  /\ id \in DOMAIN profiles
  /\ profiles' = IF CanUpdateProfile(uid, id)
                 THEN [profiles EXCEPT ![id].full_name = name]
                 ELSE profiles
  /\ lastReq' = [op |-> "update_profile", uid |-> uid, id |-> 0, rows |-> {}]
  /\ <<profiles', lastReq'>> # <<profiles, lastReq>>
  /\ toast' = NoToast
  /\ UNCHANGED <<admin, auth_users, user_roles, services, applications, documents,
                 payments, storage, applyVars, officerVars, citizenVars,
                 authVars>>

\* user_roles has a SELECT policy only: an insert, update or delete by any
\* caller is refused or matches no row. profiles has no DELETE policy.
CanWriteUserRole(uid, row) == FALSE

CanDeleteProfile(uid, id) == FALSE

\* insert into or delete from user_roles, as caller uid.
ApiWriteUserRole(uid, row, insert) ==
  /\ uid \in auth_users
  /\ user_roles' = IF ~CanWriteUserRole(uid, row) THEN user_roles
                   ELSE IF insert THEN user_roles \cup {row}
                   ELSE user_roles \ {row}
  /\ lastReq' = [op |-> IF insert THEN "insert_role" ELSE "delete_role",
                  uid |-> uid, id |-> 0, rows |-> {}]
  /\ lastReq' # lastReq
  /\ toast' = NoToast
  /\ UNCHANGED <<admin, auth_users, profiles, services, applications, documents,
                 payments, storage, applyVars, officerVars, citizenVars,
                 authVars>>

\* delete from profiles where id = id, as caller uid.
ApiDeleteProfile(uid, id) ==
  /\ uid \in auth_users
  /\ id \in DOMAIN profiles
  /\ profiles' = IF CanDeleteProfile(uid, id)
                 THEN [u \in DOMAIN profiles \ {id} |-> profiles[u]]
                 ELSE profiles
  /\ lastReq' = [op |-> "delete_profile", uid |-> uid, id |-> 0, rows |-> {}]
  /\ lastReq' # lastReq
  /\ toast' = NoToast
  /\ UNCHANGED <<admin, auth_users, user_roles, services, applications, documents,
                 payments, storage, applyVars, officerVars, citizenVars,
                 authVars>>

(* ------------------------------ AuthGuard ----------------------------- *)

\* The second effect of AuthGuard, run when user or requiredRole changed:
\* checkRole up to its request. g is the guard after the change.
checkRoleStart(g) ==
  IF g.user = NULL THEN [g EXCEPT !.loading = FALSE]
  ELSE IF g.requiredRole = NULL
       THEN [g EXCEPT !.hasRole = TRUE, !.loading = FALSE]
       ELSE [g EXCEPT !.queries = @ \cup {g.user}]

\* A guarded route mounts: useState initial values, the first effect sends
\* getSession() and subscribes, the second runs checkRole with user null.
\* The state of the guard after that.
MountedGuard(r) ==
  checkRoleStart([mounted |-> TRUE, requiredRole |-> r,
                  user |-> NULL, loading |-> TRUE,
                  hasRole |-> FALSE, getSession |-> TRUE,
                  queries |-> {}, verified |-> {}])

\* The route of the dashboard of role r (CitizenDashboard, OfficerDashboard
\* and AdminDashboard each wrap their view in AuthGuard requiredRole=r).
DashboardRoute(r) ==
  IF r = "citizen" THEN "/citizen"
  ELSE IF r = "officer" THEN "/officer"
  ELSE "/admin"

\* The AuthGuard of the page of a route: mounted anew on a dashboard route,
\* none on the other routes.
GuardAt(route) ==
  IF \E r \in Roles : route = DashboardRoute(r)
  THEN MountedGuard(CHOOSE r \in Roles : route = DashboardRoute(r))
  ELSE NoGuard

\* The browser opens the dashboard of role r by its URL.
GuardMount(r) ==
  /\ ~guard.mounted
  /\ guard' = MountedGuard(r)
  /\ nav' = Navigate(DashboardRoute(r), NULL)
  /\ toast' = NoToast
  /\ UNCHANGED <<admin, backend, applyVars, officerVars, citizenVars, lastReq,
                 session>>

\* setUser(session?.user ?? null) and, without a session, navigate("/auth"),
\* which unmounts the guard; a new user runs the second effect.
SetSessionUser(g, u) ==
  IF u = NULL THEN NoGuard
  ELSE checkRoleStart([g EXCEPT !.user = u])

\* The router after the guard has handled the session user u, from router
\* n: navigate("/auth") when there is no session.
SessionRoute_Stay(n, u) == n

SessionRoute(n, u) ==
  IF u = NULL THEN [Navigate("/auth", NULL) EXCEPT !.user = n.user] ELSE n

\* getSession() resolves.
GetSessionResolves ==
  /\ guard.mounted
  /\ guard.getSession
  /\ guard' = SetSessionUser([guard EXCEPT !.getSession = FALSE], session)
  /\ nav' = SessionRoute(nav, session)
  /\ toast' = NoToast
  /\ UNCHANGED <<admin, backend, applyVars, officerVars, citizenVars, lastReq,
                 session>>

\* The session of the browser changes (sign-in, sign-out, another account
\* signed in from another tab) and the onAuthStateChange callback runs.
AuthStateChange(u) ==
  /\ session # u
  /\ session' = u
  /\ guard' = IF guard.mounted THEN SetSessionUser(guard, u) ELSE guard
  /\ nav' = IF guard.mounted
            THEN SessionRoute([nav EXCEPT !.picked = NULL], u)
            ELSE [nav EXCEPT !.picked = NULL]
  /\ toast' = NoToast
  /\ UNCHANGED <<admin, backend, applyVars, officerVars, citizenVars, lastReq>>

\* The role query of checkRole for user u resolves with a row or with none:
\* setHasRole(true), or navigate("/") which unmounts the guard; finally
\* setLoading(false). verified records the users a query found to hold the
\* role (not read by the code).
RoleQueryResolves(u) ==
  /\ guard.mounted
  /\ u \in guard.queries
  /\ guard' = IF has_role(u, guard.requiredRole)
              THEN [guard EXCEPT !.queries = @ \ {u},
                                 !.hasRole = TRUE,
                                 !.loading = FALSE,
                                 !.verified = @ \cup {u}]
              ELSE NoGuard
  /\ nav' = IF has_role(u, guard.requiredRole) THEN nav
            ELSE Navigate("/", nav.picked)
  /\ toast' = NoToast
  /\ UNCHANGED <<admin, backend, applyVars, officerVars, citizenVars, lastReq,
                 session>>

\* The role query fails: the catch block navigates to "/".
RoleQueryFails(u) ==
  /\ guard.mounted
  /\ u \in guard.queries
  /\ guard' = NoGuard
  /\ nav' = Navigate("/", NULL)
  /\ toast' = NoToast
  /\ UNCHANGED <<admin, backend, applyVars, officerVars, citizenVars, lastReq,
                 session>>

\* What AuthGuard renders: the children, or the spinner or nothing.
ChildrenRendered ==
  /\ guard.mounted
  /\ ~guard.loading
  /\ ~(guard.user = NULL \/ (guard.requiredRole # NULL /\ ~guard.hasRole))

\* The dashboard of role r is shown: its route, and the guard of the route
\* renders the view.
DashboardShown(r) ==
  /\ nav.route = DashboardRoute(r)
  /\ guard.requiredRole = r
  /\ ChildrenRendered

(* -------------------------------- Index ------------------------------- *)

\* The browser opens the entry route / (after a sign-in, or by its URL):
\* Index mounts and its effect starts checkAuth.
OpenEntry ==
  /\ nav # Navigate("/", NULL)
  /\ nav' = Navigate("/", NULL)
  /\ guard' = NoGuard
  /\ toast' = NoToast
  /\ UNCHANGED <<admin, backend, applyVars, officerVars, citizenVars, lastReq,
                 session>>

\* checkAuth: getSession() resolves; without a session navigate("/auth"),
\* else the roles of session.user are requested.
IndexGetSession ==
  /\ nav.route = "/"
  /\ nav.pc = "getSession"
  /\ nav' = IF session = NULL THEN Navigate("/auth", NULL)
            ELSE [nav EXCEPT !.pc = "roles", !.user = session]
  /\ toast' = NoToast
  /\ UNCHANGED <<admin, backend, applyVars, officerVars, citizenVars, lastReq,
                 session, guard>>

\* An entry route that sends every caller with a role to the dashboard of
\* one of the roles.
IndexDestination_First(roles) ==
  IF roles = {} THEN "/auth"
  ELSE IF "citizen" \in roles THEN "/citizen"
  ELSE IF "officer" \in roles THEN "/officer"
  ELSE "/admin"

\* checkAuth: the route the roles fetched are mapped to (roles.length, and
\* the switch on roles[0]).
IndexDestination(roles) ==
  IF Cardinality(roles) = 0 THEN "/auth"
  ELSE IF Cardinality(roles) = 1
       THEN LET r == CHOOSE x \in roles : TRUE IN
            IF r = "citizen" THEN "/citizen"
            ELSE IF r = "officer" THEN "/officer"
            ELSE IF r = "admin" THEN "/admin"
            ELSE "/auth"
       ELSE "/select-role"

\* checkAuth: the request for the roles resolves, with the rows (ok) or with
\* data null, which the code takes for no roles; then the navigation.
IndexRolesResolve(ok) ==
  /\ nav.route = "/"
  /\ nav.pc = "roles"
  /\ LET roles == IF ok THEN RolesOf(nav.user) ELSE {}
         dest == IndexDestination(roles) IN
       /\ nav' = IF ok
                 THEN [Navigate(dest, nav.picked) EXCEPT !.user = nav.user]
                 ELSE Navigate(dest, NULL)
       /\ guard' = GuardAt(dest)
  /\ toast' = NoToast
  /\ UNCHANGED <<admin, backend, applyVars, officerVars, citizenVars, lastReq,
                 session>>

(* ---------------------------- RoleSelector ---------------------------- *)

\* The browser opens /select-role by its URL: RoleSelector mounts and its
\* effect starts checkUserRoles.
OpenSelector ==
  /\ nav # Navigate("/select-role", NULL)
  /\ nav' = Navigate("/select-role", NULL)
  /\ guard' = NoGuard
  /\ toast' = NoToast
  /\ UNCHANGED <<admin, backend, applyVars, officerVars, citizenVars, lastReq,
                 session>>

\* checkUserRoles: getUser() resolves; without a user navigate("/auth"),
\* else the roles of the user are requested.
SelectorGetUser ==
  /\ nav.route = "/select-role"
  /\ nav.pc = "getUser"
  /\ nav' = IF session = NULL THEN Navigate("/auth", NULL)
            ELSE [nav EXCEPT !.pc = "roles", !.user = session]
  /\ toast' = NoToast
  /\ UNCHANGED <<admin, backend, applyVars, officerVars, citizenVars, lastReq,
                 session, guard>>

\* redirectToRole: the route navigate is called with.
redirectToRole(role) ==
  IF role = "citizen" THEN "/"
  ELSE IF role = "officer" THEN "/officer"
  ELSE "/admin"

\* checkUserRoles after the request for the roles: the router, from router
\* n. An error and an empty list raise a toast and leave the selector
\* shown; one role is redirected to; several are listed.
SelectorAfterRoles(n, ok, roles) ==
  IF ~ok \/ roles = {}
  THEN [n EXCEPT !.pc = "idle", !.loading = FALSE, !.picked = NULL]
  ELSE IF Cardinality(roles) = 1
       THEN [Navigate(redirectToRole(CHOOSE x \in roles : TRUE), n.picked)
               EXCEPT !.user = n.user]
       ELSE [n EXCEPT !.pc = "idle", !.loading = FALSE, !.roles = roles]

\* checkUserRoles: the request for the roles resolves, with the rows (ok)
\* or with an error.
SelectorRolesResolve(ok) ==
  /\ nav.route = "/select-role"
  /\ nav.pc = "roles"
  /\ nav' = SelectorAfterRoles(nav, ok, RolesOf(nav.user))
  /\ guard' = GuardAt(nav'.route)
  /\ toast' = IF ~ok THEN Raise(nav.user, "Failed to check user roles", <<>>)
              ELSE IF RolesOf(nav.user) = {}
                   THEN Raise(nav.user, "No role assigned", <<>>)
                   ELSE NoToast
  /\ UNCHANGED <<admin, backend, applyVars, officerVars, citizenVars, lastReq,
                 session>>

\* A click on the card of role r, shown when roles.includes(r).
PickRole(r) ==
  /\ nav.route = "/select-role"
  /\ nav.pc = "idle"
  /\ ~nav.loading
  /\ r \in nav.roles
  /\ nav' = Navigate(redirectToRole(r), r)
  /\ guard' = GuardAt(nav'.route)
  /\ toast' = NoToast
  /\ UNCHANGED <<admin, backend, applyVars, officerVars, citizenVars, lastReq,
                 session>>

(* --------------------------- specifications --------------------------- *)

\* The steps of the ApplyService views of the users in C, on the services
\* in S.
SubmitSteps(C, S) ==
  \/ \E c \in C, s \in S : OpenApply(c, s)
  \/ \E c \in C, d \in Labels, b \in BOOLEAN : handleFileChange(c, d, b)
  \/ \E c \in C : handleSubmit(c)
  \/ \E h \in DOMAIN subs : InsertApplication(h)
  \/ \E h \in DOMAIN subs : UploadObject(h)
  \/ \E h \in DOMAIN subs : InsertDocument(h)
  \/ \E h \in DOMAIN subs : InsertPayment(h)
  \/ \E h \in DOMAIN subs : SubmitStepFails(h)
  \/ \E c \in C : NavigateBack(c)
  \/ \E c \in C : PageUnload(c)

\* The steps of the OfficerDashboard views.
OfficerSteps ==
  \/ \E o \in Users : OfficerMount(o)
  \/ \E o \in Users : fetchApplications(o)
  \/ \E o \in Users, a \in AppIds, x \in RemarkTexts : SetRemarks(o, a, x)
  \/ \E o \in Users, a \in AppIds, s \in ButtonStatuses :
       handleUpdateStatus(o, a, s)
  \/ \E o \in Users : \E req \in inflight[o] : UpdateResolves(o, req)
  \/ \E o \in Users : \E req \in inflight[o] : UpdateFails(o, req)

AdminSteps ==
  \E a \in Users, s \in ServiceIds, f \in Fees : AdminSetFee(a, s, f)

\* A citizen applying for services.
Next ==
  \/ SubmitSteps({"u1"}, ServiceIds)
  \/ \E s \in ServiceIds : RouteParamChange("u1", s)

Spec == Init /\ [][Next]_vars

\* A citizen applying for a service while an admin changes fees.
FeeNext ==
  \/ SubmitSteps({"u1"}, {"s1"})
  \/ AdminSteps

SpecFee == Init /\ [][FeeNext]_vars

\* A citizen applying for a service while the officers review.
ReviewNext ==
  \/ SubmitSteps({"u1"}, {"s2"})
  \/ OfficerSteps

SpecReview == Init /\ [][ReviewNext]_vars

\* The steps of the OfficerDashboard views of the users in O.
OfficerStepsOf(O) ==
  \/ \E o \in O : OfficerMount(o)
  \/ \E o \in O : fetchApplications(o)
  \/ \E o \in O, a \in AppIds, x \in RemarkTexts : SetRemarks(o, a, x)
  \/ \E o \in O, a \in AppIds, s \in ButtonStatuses :
       handleUpdateStatus(o, a, s)
  \/ \E o \in O : \E req \in inflight[o] : UpdateResolves(o, req)
  \/ \E o \in O : \E req \in inflight[o] : UpdateFails(o, req)

\* A citizen applying for a service and reading the citizen dashboard
\* while an officer reviews.
ReadNext ==
  \/ SubmitSteps({"u1"}, {"s2"})
  \/ OfficerStepsOf({"u2"})
  \/ fetchData("u1")

SpecRead == Init /\ [][ReadNext]_vars

\* Any user sending inserts and updates of applications to the query
\* service, and the citizen dashboard of u2, who is an officer too,
\* reading the table.
PolicyNext ==
  \/ \E u \in Users, c \in Users, st \in InsertStatuses :
       ApiInsertApplication(u, c, "s1", st)
  \/ \E u \in Users, i \in 1..MaxApps, d \in UpdatePayloads :
       ApiUpdateApplication(u, i, d)
  \/ \E u \in Users : ApiSelectApplications(u)
  \/ \E c \in {"u2"} : fetchData(c)

SpecPolicy == Init /\ [][PolicyNext]_vars

\* The AuthGuard of one browser whose session changes.
GuardNext ==
  \/ \E r \in Roles : GuardMount(r)
  \/ GetSessionResolves
  \/ \E u \in Users \cup {NULL} : AuthStateChange(u)
  \/ \E u \in Users : RoleQueryResolves(u)
  \/ \E u \in Users : RoleQueryFails(u)

SpecGuard == Init /\ [][GuardNext]_vars

\* The role sets the first account may hold; the roles of an account other
\* than the citizen of the signup are given and taken outside the portal.
InitNav ==
  /\ InitAccounts
  /\ \E rs \in SUBSET Roles :
       user_roles = {[user_id |-> "u1", role |-> r] : r \in rs}
                      \cup {[user_id |-> "u2", role |-> "citizen"],
                            [user_id |-> "u2", role |-> "officer"],
                            [user_id |-> "u3", role |-> "officer"],
                            [user_id |-> "u3", role |-> "admin"]}
  /\ services = [s \in ServiceIds |->
                   [fee |-> 25, required_documents |-> <<"D2">>,
                    is_active |-> TRUE]]
  /\ applications = <<>> /\ documents = <<>> /\ payments = <<>>
  /\ storage = {}
  /\ page = [u \in Users |-> NoPage]
  /\ subs = <<>>
  /\ toast = NoToast
  /\ dash = [u \in Users |-> NoDash]
  /\ inflight = [u \in Users |-> {}]
  /\ citizenApps = [u \in Users |-> {}]
  /\ citizenRows = [u \in Users |-> <<>>]
  /\ citizenServices = [u \in Users |-> {}]
  /\ admin = NoAdmin
  /\ lastReq = NoReq
  /\ session = NULL
  /\ guard = NoGuard
  /\ nav = NoNav

\* One browser: sign-in and sign-out, the entry route, the role selector and
\* the guards of the dashboards.
NavNext ==
  \/ GuardNext
  \/ OpenEntry
  \/ IndexGetSession
  \/ \E ok \in BOOLEAN : IndexRolesResolve(ok)
  \/ OpenSelector
  \/ SelectorGetUser
  \/ \E ok \in BOOLEAN : SelectorRolesResolve(ok)
  \/ \E r \in Roles : PickRole(r)

SpecNav == InitNav /\ [][NavNext]_vars

\* The citizens u1 and u2 inserting applications, and any user sending
\* inserts, updates and deletes of documents and payments, deletes of
\* applications and deletes of services to the query service.
RowsNext ==
  \/ \E u \in {"u1", "u2"} : ApiInsertApplication(u, u, "s1", "pending")
  \/ \E u \in Users, a \in 1..MaxApps : ApiInsertDocument(u, a, "D1")
  \/ \E u \in Users, a \in 1..MaxApps : ApiInsertPayment(u, a, 50)
  \/ \E u \in Users, a \in 1..MaxApps : ApiDeleteApplication(u, a)
  \/ \E u \in Users, j \in 1..MaxRows : ApiChangeDocumentOrPayment(u, j)
  \/ \E u \in Users : ApiDeleteService(u, "s1")

SpecRows == Init /\ [][RowsNext]_vars

\* Accounts signing up, and any account writing to profiles and user_roles
\* through the query service.
SignupNext ==
  \/ \E u \in NewUsers, n \in ProfileNames : SignUp(u, n)
  \/ \E u \in AllUsers, i \in AllUsers, n \in ProfileNames :
       ApiInsertProfile(u, i, n)
  \/ \E u \in AllUsers, i \in {"u1", "u4"}, n \in ProfileNames :
       ApiUpdateProfile(u, i, n)
  \/ \E u \in AllUsers, i \in AllUsers, r \in Roles, b \in BOOLEAN :
       ApiWriteUserRole(u, [user_id |-> i, role |-> r], b)
  \/ \E u \in AllUsers, i \in AllUsers : ApiDeleteProfile(u, i)

SpecSignup == Init /\ [][SignupNext]_vars

\* The statuses of the rows inserted while the statistics are read: the
\* three that are counted and one that is not.
StatsStatuses == {"pending", "approved", "rejected", "under_review"}

\* An admin opening the AdminDashboard while applications are inserted
\* with any status, new users sign up and the admin deletes a service. The
\* tables only grow or lose rows here: no write restores an earlier value.
StatsNext ==
  \/ \E a \in Users : AdminMount(a)
  \/ AppsQueryResolves
  \/ CountQueryResolves
  \/ StatsQueryFails
  \/ \E s \in ServiceIds, st \in StatsStatuses :
       ApiInsertApplication("u1", "u1", s, st)
  \/ SignUp("u4", "n")
  \/ ApiDeleteService("u3", "s2")

SpecStats == Init /\ [][StatsNext]_vars

\* The state a submission of u1 for s1 left behind that failed at the
\* upload of D2: the pending application with the Document row and the
\* object of D1 and no Payment row; u1 has left the apply page.
InitResubmit ==
  /\ InitAccounts
  /\ user_roles = {[user_id |-> "u1", role |-> "citizen"],
                   [user_id |-> "u2", role |-> "citizen"],
                   [user_id |-> "u2", role |-> "officer"],
                   [user_id |-> "u3", role |-> "officer"],
                   [user_id |-> "u3", role |-> "admin"]}
  /\ services =
       [s \in ServiceIds |->
          IF s = "s1"
          THEN [fee |-> 50, required_documents |-> <<"D1", "D2">>,
                is_active |-> TRUE]
          ELSE [fee |-> 25, required_documents |-> <<"D2">>,
                is_active |-> TRUE]]
  /\ applications = <<NewApplication("u1", "s1", "pending")>>
  /\ documents = <<[application_id |-> 1, doc_type |-> "D1",
                    file_url |-> ObjectPath("u1", 1, "D1")]>>
  /\ payments = <<>>
  /\ storage = {ObjectPath("u1", 1, "D1")}
  /\ page = [u \in Users |-> NoPage]
  /\ subs = <<>>
  /\ toast = NoToast
  /\ dash = [u \in Users |-> NoDash]
  /\ inflight = [u \in Users |-> {}]
  /\ citizenApps = [u \in Users |-> {}]
  /\ citizenRows = [u \in Users |-> <<>>]
  /\ citizenServices = [u \in Users |-> {}]
  /\ admin = NoAdmin
  /\ lastReq = NoReq
  /\ session = NULL
  /\ guard = NoGuard
  /\ nav = NoNav

\* The citizen applies for the same service again.
ResubmitNext == SubmitSteps({"u1"}, {"s1"})

SpecResubmit == InitResubmit /\ [][ResubmitNext]_vars

\* One officer at the dashboard while a citizen's pending applications
\* arrive.
DeskNext ==
  \/ ApiInsertApplication("u1", "u1", "s1", "pending")
  \/ OfficerStepsOf({"u2"})

SpecDesk == Init /\ [][DeskNext]_vars

\* The catalogue with s2 inactive; u2 holds citizen and admin.
InitCatalog ==
  /\ InitAccounts
  /\ user_roles = {[user_id |-> "u1", role |-> "citizen"],
                   [user_id |-> "u2", role |-> "citizen"],
                   [user_id |-> "u2", role |-> "admin"],
                   [user_id |-> "u3", role |-> "officer"]}
  /\ services =
       [s \in ServiceIds |->
          IF s = "s1"
          THEN [fee |-> 50, required_documents |-> <<"D1", "D2">>,
                is_active |-> TRUE]
          ELSE [fee |-> 25, required_documents |-> <<"D2">>,
                is_active |-> FALSE]]
  /\ applications = <<>> /\ documents = <<>> /\ payments = <<>>
  /\ storage = {}
  /\ page = [u \in Users |-> NoPage]
  /\ subs = <<>>
  /\ toast = NoToast
  /\ dash = [u \in Users |-> NoDash]
  /\ inflight = [u \in Users |-> {}]
  /\ citizenApps = [u \in Users |-> {}]
  /\ citizenRows = [u \in Users |-> <<>>]
  /\ citizenServices = [u \in Users |-> {}]
  /\ admin = NoAdmin
  /\ lastReq = NoReq
  /\ session = NULL
  /\ guard = NoGuard
  /\ nav = NoNav

\* Two citizens, one of them an admin, reading the catalogue and opening
\* the apply page and choosing files there while the admin switches s1 off
\* and on; s2 stays inactive.
CatalogNext ==
  \/ \E a \in Users, b \in BOOLEAN : AdminSetActive(a, "s1", b)
  \/ \E c \in Users : fetchData(c)
  \/ \E c \in Users, s \in ServiceIds : OpenApply(c, s)
  \/ \E c \in Users, s \in ServiceIds : RouteParamChange(c, s)
  \/ \E c \in Users, d \in Labels, b \in BOOLEAN : handleFileChange(c, d, b)
  \/ \E c \in Users : NavigateBack(c)

SpecCatalog == InitCatalog /\ [][CatalogNext]_vars

(* ------------------------------- claims ------------------------------- *)

\* C1: after any sequence of citizen submissions and officer status updates,
\* every application row has completed_on non-null if and only if its status
\* is approved or rejected.
C1_CompletedOnIffTerminal ==
  \A i \in DOMAIN applications :
    (applications[i].completed_on # NULL)
      <=> (applications[i].status \in Terminal)

\* An application a submission created has been approved by an officer.
C1_Witness ==
  \E h \in DOMAIN subs :
    /\ subs[h].app \in DOMAIN applications
    /\ applications[subs[h].app].status = "approved"
    /\ applications[subs[h].app].completed_on = Instant
    /\ toast.msg = "Application approved"

\* C2: approved and rejected are terminal: once a row's status is approved
\* or rejected no later step changes it, whichever officer sends the update.
C2_TerminalStatusIsFinal ==
  [][\A i \in DOMAIN applications :
       applications[i].status \in Terminal
         => applications'[i].status = applications[i].status]_vars

\* C3: an update of an applications row sent by a caller who holds neither
\* officer nor admin changes no row, also when the caller is the row's
\* citizen_id.
C3_UpdateNeedsOfficerOrAdmin ==
  [][(lastReq'.op = "update" /\ ~IsStaff(lastReq'.uid))
       => applications' = applications]_vars

\* A citizen without officer or admin has sent an update of her own row.
C3_Witness ==
  /\ lastReq.op = "update"
  /\ lastReq.uid = "u1"
  /\ ~IsStaff("u1")
  /\ applications[lastReq.id].citizen_id = "u1"
  /\ applications[lastReq.id].status = "pending"

\* The rows of the table whose citizen_id is u.
OwnRows(u) == {i \in DOMAIN applications : applications[i].citizen_id = u}

\* C4: a read of applications by a caller holding only citizen returns
\* exactly the caller's own rows, a read by an officer or admin returns all
\* rows, and the list of the citizen dashboard holds only rows of the caller
\* whatever roles the caller holds.
C4_ReadsByRole ==
  /\ lastReq.op = "select" =>
       /\ RolesOf(lastReq.uid) = {"citizen"}
            => lastReq.rows = OwnRows(lastReq.uid)
       /\ RolesOf(lastReq.uid) \cap {"officer", "admin"} # {}
            => lastReq.rows = DOMAIN applications
  /\ \A u \in Users : citizenApps[u] \subseteq OwnRows(u)

\* The table holds rows of two citizens; the one holding only citizen has
\* read her own row, and the dashboard of the other, who is an officer too,
\* lists his own row.
C4_Witness ==
  /\ lastReq.op = "select"
  /\ lastReq.uid = "u1"
  /\ lastReq.rows # {}
  /\ lastReq.rows # DOMAIN applications
  /\ citizenApps["u2"] # {}
  /\ citizenApps["u2"] # DOMAIN applications

\* The labels the service of c's view requires and the view holds no file
\* for.
MissingLabels(c) ==
  {d \in Range(page[c].service.required_documents) :
     d \notin Range(page[c].files)}

\* C5: a handleSubmit with a file missing for at least one required label
\* writes nothing to the backend (no application, storage object, document or
\* payment, and no handler is left running that would), and the error it
\* raises names exactly the missing labels.
C5_MissingDocumentBlocksSubmit ==
  [][\A c \in Users :
       (MissingLabels(c) # {} /\ handleSubmit(c))
         => /\ UNCHANGED <<auth_users, profiles, user_roles, services, applications, documents,
                           payments, storage>>
            /\ subs' = subs
            /\ toast'.user = c
            /\ toast'.msg = "Please upload"
            /\ Range(toast'.labels) = MissingLabels(c)
            /\ Len(toast'.labels) = Cardinality(MissingLabels(c))]_vars

\* The citizen has submitted for the service requiring D1 and D2 with only
\* D1 supplied: the error names D2 and the backend holds nothing.
C5_Witness ==
  /\ toast = Raise("u1", "Please upload", <<"D2">>)
  /\ page["u1"].service.id = "s1"
  /\ page["u1"].files = <<"D1">>
  /\ applications = <<>> /\ documents = <<>> /\ payments = <<>>
  /\ storage = {}
  /\ subs = <<>>

\* The Document rows of application a for label d, the Payment rows of a.
DocumentsOf(a, d) ==
  {j \in DOMAIN documents :
     documents[j].application_id = a /\ documents[j].doc_type = d}

PaymentsOf(a) == {j \in DOMAIN payments : payments[j].application_id = a}

\* C6: a submission with every required document supplied whose requests
\* all succeeded has created exactly one Application row (pending, citizen_id
\* the caller), exactly one Document row per required label, and exactly one
\* Payment row (completed, amount the fee of the service).
C6_SuccessfulSubmissionRows ==
  /\ Cardinality({h \in DOMAIN subs : subs[h].app # 0}) = Len(applications)
  /\ \A h \in DOMAIN subs :
       subs[h].pc = "done" =>
         LET t == subs[h] IN
         /\ t.app \in DOMAIN applications
         /\ \A k \in DOMAIN subs : k # h => subs[k].app # t.app
         /\ applications[t.app].citizen_id = t.user
         /\ applications[t.app].service_id = t.service.id
         /\ applications[t.app].status = "pending"
         /\ \A d \in Range(t.service.required_documents) :
              Cardinality(DocumentsOf(t.app, d)) = 1
         /\ Cardinality(PaymentsOf(t.app)) = 1
         /\ \A j \in PaymentsOf(t.app) :
              /\ payments[j].status = "completed"
              /\ payments[j].amount = services[t.service.id].fee

\* The submission for the service with fee 50 and documents D1 and D2 has
\* gone through.
C6_Witness ==
  \E h \in DOMAIN subs :
    /\ subs[h].pc = "done"
    /\ subs[h].service.id = "s1"
    /\ Len(applications) = 1
    /\ Len(documents) = 2
    /\ Len(payments) = 1
    /\ payments[1].amount = 50
    /\ toast.msg = "Application submitted successfully!"

\* C7: the writes of one submission are ordered: a Payment row of an
\* application exists only if every file supplied has its Document row, a
\* Document row only if its storage object is there, and documents, objects
\* and a handler past the first request only if the Application row exists.
C7_WriteOrder ==
  /\ \A j \in DOMAIN payments :
       \E h \in DOMAIN subs :
         /\ subs[h].app = payments[j].application_id
         /\ \A d \in Range(subs[h].files) :
              DocumentsOf(subs[h].app, d) # {}
  /\ \A j \in DOMAIN documents :
       /\ documents[j].file_url \in storage
       /\ documents[j].application_id \in DOMAIN applications
  /\ \A path \in storage : path[2] \in DOMAIN applications
  /\ \A h \in DOMAIN subs :
       subs[h].pc \in {"upload", "insertDoc", "payment", "done"}
         => subs[h].app \in DOMAIN applications

\* A submission of two files is between the second upload and the second
\* Document insert: one Document row, two objects, no Payment row.
C7_Witness ==
  \E h \in DOMAIN subs :
    /\ subs[h].pc = "insertDoc"
    /\ Len(subs[h].files) = 2
    /\ Len(documents) = 1
    /\ Cardinality(storage) = 2
    /\ payments = <<>>

\* s is an initial part of t.
IsPrefix(s, t) ==
  Len(s) <= Len(t) /\ \A i \in DOMAIN s : t[i] = s[i]

\* A step undoes nothing: the rows and objects written stay as they are, the
\* Application row of every submission stays pending, and a submission that
\* failed or whose document was left sends nothing further and does not
\* start again.
CompletedStepsStay ==
  /\ IsPrefix(applications, applications')
  /\ IsPrefix(documents, documents')
  /\ IsPrefix(payments, payments')
  /\ storage \subseteq storage'
  /\ \A h \in DOMAIN subs :
       subs[h].app # 0 =>
         /\ subs[h].app \in DOMAIN applications'
         /\ applications'[subs[h].app].status = "pending"
  /\ \A h \in DOMAIN subs :
       subs[h].pc \in {"failed", "killed"} =>
         /\ subs'[h] = subs[h]
         /\ subs[h].app # 0 =>
              /\ \A j \in DOMAIN documents' \ DOMAIN documents :
                   documents'[j].application_id # subs[h].app
              /\ \A j \in DOMAIN payments' \ DOMAIN payments :
                   payments'[j].application_id # subs[h].app
              /\ \A path \in storage' \ storage : path[2] # subs[h].app

\* The view of the submission h was left by a navigation inside the
\* application while the handler was still running.
NavigatedAway(h) ==
  subs[h].pc \in ActivePc /\ page[subs[h].user].submitting # h

\* C8 (as stated): after a failed step, and also after the client navigated
\* away mid-submission, what was written stays, nothing is deleted, no
\* remaining step is attempted and nothing is retried.
C8_NoStepAfterFailureOrNavigation ==
  [][/\ CompletedStepsStay
     /\ \A h \in DOMAIN subs :
          NavigatedAway(h) =>
            ~(subs'[h].pc \in ActivePc \cup {"done"}
                /\ subs'[h].pc # subs[h].pc)]_vars

\* C8: after a failed step of a submission whose Application insert
\* succeeded, and after the document is left, every completed step stays
\* committed: the Application row stays pending, nothing is deleted, no
\* remaining step is attempted and nothing is retried. (A navigation inside
\* the application does not end the handler.)
C8_CompletedStepsStay == [][CompletedStepsStay]_vars

\* A submission failed after its Application row and a Document row were
\* written: the row is pending, there is no Payment row.
C8_Witness ==
  \E h \in DOMAIN subs :
    /\ subs[h].pc = "failed"
    /\ subs[h].app \in DOMAIN applications
    /\ applications[subs[h].app].status = "pending"
    /\ \E j \in DOMAIN documents :
         documents[j].application_id = subs[h].app
    /\ PaymentsOf(subs[h].app) = {}
    /\ toast.msg = "Failed to submit application"

\* C9: the amount of every Payment row a submission created is the fee its
\* service had when the citizen submitted, also when an admin changed the fee
\* after the apply page had loaded the service.
C9_AmountIsFeeAtSubmission ==
  \A j \in DOMAIN payments :
    \E h \in DOMAIN subs :
      /\ subs[h].app = payments[j].application_id
      /\ payments[j].amount = subs[h].feeAtSubmit

\* C10: an AuthGuard with a requiredRole renders its children only if a role
\* query completed for the user now signed in and found that this user holds
\* requiredRole, also after the session changed to another user.
C10_ChildrenOnlyForVerifiedUser ==
  (ChildrenRendered /\ guard.requiredRole # NULL)
    => /\ guard.user = session
       /\ session \in guard.verified
       /\ has_role(session, guard.requiredRole)

\* C11: the entry route maps the role set of the caller to a destination:
\* exactly one role goes to the dashboard of that role (/citizen, /officer,
\* /admin), two or more roles go to /select-role and never to a dashboard.
C11_EntryRouteByRoleSet ==
  [][IndexRolesResolve(TRUE) =>
       LET rs == RolesOf(nav.user) IN
       /\ rs = {"citizen"} => nav'.route = "/citizen"
       /\ rs = {"officer"} => nav'.route = "/officer"
       /\ rs = {"admin"} => nav'.route = "/admin"
       /\ \A r \in Roles :
            rs = {r} => guard'.mounted /\ guard'.requiredRole = r
       /\ Cardinality(rs) >= 2
            => nav'.route = "/select-role" /\ ~guard'.mounted]_vars

\* The entry route has sent an account holding only officer to /officer.
C11_Witness ==
  /\ nav.route = "/officer"
  /\ nav.user = "u1"
  /\ session = "u1"
  /\ RolesOf("u1") = {"officer"}
  /\ guard.requiredRole = "officer"

\* The navigation has come to rest: no effect of the page shown and no
\* request of its guard is still running.
NavAtRest ==
  /\ nav.pc = "idle"
  /\ guard.mounted => ~guard.getSession /\ guard.queries = {}

\* C12: when a user holding several roles picks role r in the role selector,
\* the navigation that follows ends on the dashboard of r: once it has come
\* to rest the dashboard of r is shown, for each role r the user holds.
C12_PickLeadsToDashboard ==
  (nav.picked \in RolesOf(session) /\ NavAtRest)
    => DashboardShown(nav.picked)

\* C13: whenever the role set fetched for an authenticated caller is empty
\* the caller is sent to /auth, by the entry route and by the role selector.
C13_NoRolesGoesToAuth ==
  [][/\ (IndexRolesResolve(TRUE) /\ RolesOf(nav.user) = {})
          => nav'.route = "/auth"
     /\ (SelectorRolesResolve(TRUE) /\ RolesOf(nav.user) = {})
          => nav'.route = "/auth"]_vars

\* C14: with no valid session the entry route and the guarded routes
\* navigate to /auth and no guarded content is rendered; when the session
\* ends while a guard is mounted, the guard navigates to /auth and the
\* children are no longer rendered.
C14_NoSessionNoGuardedContent ==
  [][/\ (IndexGetSession /\ session = NULL) => nav'.route = "/auth"
     /\ (GetSessionResolves /\ session = NULL)
          => nav'.route = "/auth" /\ ~guard'.mounted
     /\ (guard.mounted /\ session # NULL /\ session' = NULL)
          => nav'.route = "/auth" /\ ~guard'.mounted
     /\ session = NULL => ~ChildrenRendered
     /\ session' = NULL => ~ChildrenRendered']_vars

\* The session of u1 has ended while the guard of the dashboard the entry
\* route had sent u1 to was mounted: the browser shows /auth.
C14_Witness ==
  /\ session = NULL
  /\ nav.route = "/auth"
  /\ nav.user = "u1"
  /\ RolesOf("u1") = {"citizen"}
  /\ ~guard.mounted

\* The user_roles rows of user u.
RoleRows(u) == {r \in user_roles : r.user_id = u}

\* C15: a signup creates, in one step, the Profile row with the id of the
\* new account and exactly one user_roles row for it, with role citizen; in
\* no state does an account have a Profile and no user_roles row or a
\* user_roles row and no Profile.
C15_SignupProfileAndCitizenRole ==
  [][/\ \A u \in AllUsers :
          (u \notin auth_users /\ u \in auth_users')
            => /\ u \in DOMAIN profiles'
               /\ RoleRows(u)' = {[user_id |-> u, role |-> "citizen"]}
     /\ \A u \in AllUsers :
          /\ (u \in DOMAIN profiles) <=> (RoleRows(u) # {})
          /\ (u \in DOMAIN profiles') <=> (RoleRows(u)' # {})]_vars

\* Account u4 has signed up and has since been refused a second role.
C15_Witness ==
  /\ "u4" \in auth_users
  /\ "u4" \in DOMAIN profiles
  /\ RoleRows("u4") = {[user_id |-> "u4", role |-> "citizen"]}
  /\ lastReq.op = "insert_role"
  /\ lastReq.uid = "u4"

\* Application a exists and its citizen_id is u.
IsOwnApplication(u, a) ==
  /\ a \in DOMAIN applications
  /\ applications[a] # Gone
  /\ applications[a].citizen_id = u

\* C16: an insert of a Document row or of a Payment row is accepted only if
\* its application_id references an existing Application whose citizen_id is
\* the caller; an insert referencing another citizen's application, or none,
\* is rejected and leaves the tables unchanged.
C16_ChildInsertNeedsOwnApplication ==
  [][/\ Len(documents') > Len(documents)
          => /\ lastReq'.op = "insert_document"
             /\ documents'[Len(documents')].application_id = lastReq'.id
             /\ IsOwnApplication(lastReq'.uid, lastReq'.id)
     /\ Len(payments') > Len(payments)
          => /\ lastReq'.op = "insert_payment"
             /\ payments'[Len(payments')].application_id = lastReq'.id
             /\ IsOwnApplication(lastReq'.uid, lastReq'.id)
     /\ (/\ lastReq' # lastReq
         /\ lastReq'.op \in {"insert_document", "insert_payment"}
         /\ ~IsOwnApplication(lastReq'.uid, lastReq'.id))
          => /\ documents' = documents
             /\ payments' = payments
             /\ applications' = applications]_vars

\* u1 has a Payment row for her own application, and the insert of a
\* Document row for that application by u2 has been rejected.
C16_Witness ==
  /\ lastReq.op = "insert_document"
  /\ lastReq.uid = "u2"
  /\ IsOwnApplication("u1", lastReq.id)
  /\ documents = <<>>
  /\ \E j \in DOMAIN payments : payments[j].application_id = lastReq.id

\* C17: every Application row is created by the caller its citizen_id
\* names, with status pending and completed_on null: no insert the insert
\* policy accepts produces a row for another user or a row that starts in
\* another status.
C17_InsertedRowIsOwnAndPending ==
  [][Len(applications') > Len(applications) =>
       LET row == applications'[Len(applications')] IN
       /\ lastReq'.op = "insert"
       /\ row.citizen_id = lastReq'.uid
       /\ row.status = "pending"
       /\ row.completed_on = NULL]_vars

\* C18: a caller who holds officer or admin and not citizen cannot insert
\* an Application row: every such insert is rejected.
C18_StaffCannotInsert ==
  [][(/\ lastReq'.op = "insert"
      /\ IsStaff(lastReq'.uid)
      /\ ~has_role(lastReq'.uid, "citizen"))
       => applications' = applications]_vars

\* C19: Application rows are never deleted and Document and Payment rows
\* are never updated or deleted once created: no request the policy layer
\* permits to any role, an admin's management of services included, removes
\* an Application, Document or Payment row or changes a Document or Payment
\* row.
C19_RowsNeverRemovedOrChanged ==
  [][/\ Len(applications') >= Len(applications)
     /\ \A i \in DOMAIN applications :
          applications[i] # Gone => applications'[i] # Gone
     /\ IsPrefix(documents, documents')
     /\ IsPrefix(payments, payments')]_vars

\* C20: after an officer has set an application to approved with remarks
\* R, completed_on of the row is non-null and the citizen's next read of it
\* on the citizen dashboard reflects the status approved and the remarks R.
C20_CitizenReadsApprovalAndRemarks ==
  [][fetchData("u1") =>
       \A i \in citizenApps'["u1"] :
         (applications[i].status = "approved" /\ applications[i].remarks # NULL)
           => /\ applications[i].completed_on # NULL
              /\ citizenRows'["u1"][i].status = "approved"
              /\ "remarks" \in DOMAIN citizenRows'["u1"][i]
              /\ citizenRows'["u1"][i].remarks = applications[i].remarks]_vars

\* The fees of the rows of data with status approved, summed fee by fee
\* over the fees in F.
RECURSIVE ApprovedFees(_, _)
ApprovedFees(data, F) ==
  IF F = {} THEN 0
  ELSE LET f == CHOOSE x \in F : TRUE IN
       f * Cardinality({i \in DOMAIN data :
                          data[i].status = "approved" /\ data[i].fee = f})
         + ApprovedFees(data, F \ {f})

\* C21: the statistics fetchStats sets equal, for the Application rows
\* returned: totalApplications the number of rows, the pending, approved
\* and rejected counts the number of rows with that status, totalRevenue
\* the sum of the joined service fee over the approved rows; so pending +
\* approved + rejected <= totalApplications, with equality exactly when no
\* row is under_review or additional_info_required.
C21_StatsMatchRows ==
  [][CountQueryResolves =>
       LET d == admin.data
           s == admin'.stats
           part == s.pendingApplications + s.approvedApplications
                     + s.rejectedApplications
       IN
       /\ s.totalApplications = Cardinality(DOMAIN d)
       /\ \A i \in DOMAIN d :
            /\ i \in DOMAIN applications
            /\ d[i].status \in Statuses
       /\ s.pendingApplications
            = Cardinality({i \in DOMAIN d : d[i].status = "pending"})
       /\ s.approvedApplications
            = Cardinality({i \in DOMAIN d : d[i].status = "approved"})
       /\ s.rejectedApplications
            = Cardinality({i \in DOMAIN d : d[i].status = "rejected"})
       /\ s.totalRevenue = ApprovedFees(d, Fees)
       /\ part <= s.totalApplications
       /\ part = s.totalApplications
            <=> \A i \in DOMAIN d :
                  d[i].status \notin {"under_review",
                                      "additional_info_required"}]_vars

\* The admin's dashboard shows two applications, one approved for the
\* service with fee 50 and one that is neither pending nor rejected.
C21_Witness ==
  /\ admin.pc = "done"
  /\ admin.stats.totalApplications = 2
  /\ admin.stats.approvedApplications = 1
  /\ admin.stats.pendingApplications = 0
  /\ admin.stats.rejectedApplications = 0
  /\ admin.stats.totalRevenue = 50

\* C22: the Registered Citizens figure shown to an admin equals the number
\* of rows of the whole user_roles table whose role is citizen.
C22_CitizenCountIsWholeTable ==
  [][CountQueryResolves =>
       admin'.stats.totalCitizens
         = Cardinality({r \in user_roles : r.role = "citizen"})]_vars

C30_StatsAllOrNothing ==
  [][/\ StatsQueryFails
          => /\ admin'.stats = admin.stats
             /\ toast'.msg = "Failed to load statistics"
             /\ toast'.user = admin.user
             /\ ~admin'.loading
     /\ CountQueryResolves => ~admin'.loading /\ toast' = NoToast
     /\ AppsQueryResolves => admin'.stats = admin.stats /\ admin'.loading
     /\ admin'.stats # admin.stats
          => \/ CountQueryResolves
             \/ admin'.pc = "apps" /\ admin'.stats = ZeroStats]_vars

\* The citizen count of a run failed while the table held an application:
\* the dashboard shows zeros, the spinner is gone and the toast is up; an
\* earlier run had shown one application.
C30_Witness ==
  /\ admin.pc = "done"
  /\ ~admin.loading
  /\ toast.msg = "Failed to load statistics"
  /\ admin.stats = ZeroStats
  /\ admin.lastStats.totalApplications = 1
  /\ Len(applications) = 2

\* C24: a service with is_active false is never returned to a caller who
\* does not hold admin, neither in the services list of the citizen
\* dashboard nor when the apply page fetches it by id, and it is returned
\* to a caller who holds admin: a caller without admin cannot open the
\* apply form for a service that is inactive when the page loads.
C24_InactiveServiceOnlyForAdmin ==
  [][\A c \in Users :
       /\ citizenServices'[c] # citizenServices[c]
            => \A s \in citizenServices'[c] : services[s].is_active
       /\ \A s \in ServiceIds :
            (OpenApply(c, s) \/ RouteParamChange(c, s))
              => ((page'[c].route = "apply" /\ page'[c].service.id = s)
                    <=> (services[s].is_active \/ has_role(c, "admin")))]_vars

\* The admin has the apply form of the inactive s2 open, and the other
\* citizen, whose list holds no service while s1 is switched off, is not on
\* an apply page.
C24_Witness ==
  /\ page["u2"].route = "apply"
  /\ page["u2"].service.id = "s2"
  /\ ~services["s2"].is_active
  /\ ~services["s1"].is_active
  /\ citizenServices["u1"] = {}
  /\ citizenServices["u2"] = {"s1"}
  /\ page["u1"].route = "other"

\* C25: every Document row a submission created has a doc_type that is a
\* label of the required_documents of the application's service, and a
\* submission that went through has one Document row per such label and no
\* other; also when the apply view was reused for another service id after
\* files were chosen for the first service.
C25_DocumentsAreRequiredLabels ==
  /\ \A j \in DOMAIN documents :
       LET a == applications[documents[j].application_id] IN
       documents[j].doc_type
         \in Range(services[a.service_id].required_documents)
  /\ \A h \in DOMAIN subs :
       subs[h].pc = "done" =>
         \A d \in Labels :
           Cardinality(DocumentsOf(subs[h].app, d))
             = IF d \in Range(services[subs[h].service.id].required_documents)
               THEN 1 ELSE 0

\* C26: when two officers issue a status update for the same Application
\* concurrently both updates succeed: each update the backend applies,
\* whatever the row holds by then, sets the row's status, remarks and
\* completed_on to its own values and its officer gets the success
\* notification, so the values of the update applied earlier are lost
\* without an error.
C26_LastUpdateWins ==
  [][\A o \in Users :
       \A req \in inflight[o] :
         UpdateResolves(o, req) =>
           /\ applications'[req.app].status = req.data.status
           /\ applications'[req.app].remarks = req.data.remarks
           /\ applications'[req.app].completed_on = req.data.completed_on
           /\ toast' = Raise(o, "Application " \o req.data.status, <<>>)]_vars

\* The officers u2 and u3 each have an update of application 1 in flight,
\* with different statuses and remarks.
C26_Witness ==
  \E r2 \in inflight["u2"], r3 \in inflight["u3"] :
    /\ r2.app = 1 /\ r3.app = 1
    /\ r2.data.status = "approved" /\ r3.data.status = "rejected"
    /\ r2.data.remarks = "r" /\ r3.data.remarks = NULL
    /\ 1 \in DOMAIN applications
    /\ applications[1].status = "pending"

\* C27: with only the reference client acting (the citizen's submission and
\* the officer dashboard), every status update the client issues sets
\* status to approved or rejected and is issued for an application the
\* dashboard displays as pending; so every Application's status is one of
\* pending, approved, rejected, and officer_id is null.
C27_ClientOnlyDecidesPending ==
  [][/\ \A o \in Users :
          \A req \in inflight'[o] \ inflight[o] :
            /\ req.data.status \in {"approved", "rejected"}
            /\ req.app \in DOMAIN dash[o].apps
            /\ dash[o].apps[req.app] = "pending"
     /\ \A i \in DOMAIN applications' :
          /\ applications'[i].status \in {"pending", "approved", "rejected"}
          /\ applications'[i].officer_id = NULL]_vars

\* Officer u3 has rejected application 1 with remarks and the dashboard
\* has fetched the list again.
C27_Witness ==
  /\ 1 \in DOMAIN applications
  /\ dash["u3"].mounted
  /\ 1 \in DOMAIN dash["u3"].apps
  /\ applications[1].status = "rejected"
  /\ applications[1].remarks = "r"
  /\ applications[1].officer_id = NULL
  /\ dash["u3"].apps[1] = "rejected"
  /\ inflight["u3"] = {}

\* C28: while a status update for an application is in flight from an
\* officer's dashboard, the Approve and Reject buttons of that application
\* are disabled (processingId is its id), also after the officer started an
\* update for another application; so at most one update per application
\* is in flight from one dashboard.
C28_ButtonsDisabledWhileInFlight ==
  \A o \in Users :
    /\ \A req \in inflight[o] : dash[o].processingId = req.app
    /\ \A a \in AppIds :
         Cardinality({req \in inflight[o] : req.app = a}) <= 1

\* The applications no handleSubmit invocation of subs has created.
Earlier == {a \in DOMAIN applications : \A h \in DOMAIN subs : subs[h].app # a}

====
